---- MODULE Spec2Model ----
(***************************************************************************)
(* Model of bibtexparser/middlewares/sorting_blocks.py: the key            *)
(* combinators (_ReversedKey, reverse_key), the type-dispatch key          *)
(* (_mro_index, type_key), junk grouping (_BlockJunk, _gather_junk) and    *)
(* the sort orchestrator (SortBlocksMiddleware.transform).                 *)
(*                                                                         *)
(* Block objects live in a heap (a sequence of records; a block's identity *)
(* is its index), a library is a sequence of block identities, and         *)
(* deepcopy allocates fresh identities.                                    *)
(***************************************************************************)
EXTENDS Integers, Sequences, FiniteSets, TLC

VARIABLES
    heap,     \* block objects: heap[id] = [type, attr]
    libs,     \* Library objects: libs[l] = the live block list (ids) of library l
    mw,       \* the SortBlocksMiddleware instance: _key, _reverse, _junk, allow_inplace_modification
    pc,       \* "start" (no middleware yet), "constructed", "returned"
    arg,      \* library passed to the last transform call
    ret,      \* library returned by the last transform call (0: none)
    entry,    \* block list of arg when the last transform call was entered
    calls,    \* number of transform calls made
    raised,   \* exception the last transform call ended with ("" : none)
    call,     \* the pure function applied last, with its arguments
    result    \* what it returned

vars == <<heap, libs, mw, pc, arg, ret, entry, calls, raised, call, result>>

----------------------------------------------------------------------------
(* Bounds of the model. *)

\* longest block list of a library handed to transform or _gather_junk
MaxLen == 4
\* longest block list sorted with reverse_key
MaxSortLen == 3
\* longest type order handed to type_key
MaxOrderLen == 2
\* largest fallback_idx handed to type_key
MaxFallback == 1

----------------------------------------------------------------------------
(* Python values. *)

\* None, and a present optional argument
None == <<>>
Some(x) == <<x>>

\* a call's outcome: a returned value, or a raised exception
Ok(v) == [exc |-> "", val |-> v]
Raise(e) == [exc |-> e]

\* seq[a:b] for 0 <= a <= b <= len(seq)
Slice(seq, a, b) == SubSeq(seq, a + 1, b)

\* reversed(seq)
Reverse(seq) == [i \in 1..Len(seq) |-> seq[Len(seq) + 1 - i]]

\* all sequences over S of length at most n
SeqsUpTo(S, n) == UNION {[1..k -> S] : k \in 0..n}

----------------------------------------------------------------------------
(* Block types. *)

\* a default order that ranks entries first
DefaultOrder_EntryFirst == <<"Entry", "String", "Preamble", "ImplicitComment", "ExplicitComment">>

\* the order type_key installs when none is given
DefaultOrder == <<"String", "Preamble", "Entry", "ImplicitComment", "ExplicitComment">>

\* the concrete block types the module imports
BlockTypes == {DefaultOrder[i] : i \in DOMAIN DefaultOrder}

\* every type that can stand in a type order: the block types and their bases
AllTypes == BlockTypes \cup {"Block", "object"}

\* cls.mro(): the type itself, then its bases, most specific first
Mro(cls) ==
    IF cls = "object" THEN <<"object">>
    ELSE IF cls = "Block" THEN <<"Block", "object">>
    ELSE <<cls, "Block", "object">>

\* isinstance(blk, (ExplicitComment, ImplicitComment))
IsComment(h, id) == h[id].type \in {"ExplicitComment", "ImplicitComment"}

----------------------------------------------------------------------------
(* Keys.  A plain key is [val |-> an integer]; a _ReversedKey is           *)
(* [base |-> the key it wraps].                                            *)

\* _ReversedKey.__init__
ReversedKey(base) == [base |-> base]

IsReversedKey(k) == "base" \in DOMAIN k

RECURSIVE key_eq(_, _), key_lt(_, _), key_gt(_, _)

\* _ReversedKey.__eq__
ReversedKey_eq(self, other) == key_eq(self.base, other.base)

\* a reversed key that forgets to reverse
ReversedKey_lt_SameOrder(self, other) == key_lt(self.base, other.base)

\* _ReversedKey.__lt__
ReversedKey_lt(self, other) == key_gt(self.base, other.base)

\* _ReversedKey.__gt__
ReversedKey_gt(self, other) == key_lt(self.base, other.base)

\* a == b, a < b, a > b on keys: the wrapper's method, or the integers' own
key_eq(a, b) == IF IsReversedKey(a) THEN ReversedKey_eq(a, b) ELSE a.val = b.val
key_lt(a, b) == IF IsReversedKey(a) THEN ReversedKey_lt(a, b) ELSE a.val < b.val
key_gt(a, b) == IF IsReversedKey(a) THEN ReversedKey_gt(a, b) ELSE a.val > b.val

----------------------------------------------------------------------------
(* Type-dispatch key. *)

\* tuple.index(x): the first position of x (0-based), ValueError when absent
tuple_index(seq, x) ==
    IF \E i \in DOMAIN seq : seq[i] = x
    THEN Ok((CHOOSE i \in DOMAIN seq : seq[i] = x /\ \A j \in 1..(i - 1) : seq[j] # x) - 1)
    ELSE Raise("ValueError")

\* the loop of _mro_index: only a KeyError moves on to the next type of the MRO
RECURSIVE mro_index_loop(_, _, _)
mro_index_loop(mro, seq, default) ==
    IF mro = <<>>
    THEN Ok(IF default = None THEN Len(seq) ELSE default[1])
    ELSE LET r == tuple_index(seq, Head(mro))
         IN  IF r.exc = "" THEN r
             ELSE IF r.exc = "KeyError" THEN mro_index_loop(Tail(mro), seq, default)
             ELSE r

\* _mro_index(cls, seq, default)
mro_index(cls, seq, default) == mro_index_loop(Mro(cls), seq, default)

\* type_key(order, fallback_idx=fallback_idx) without sub-keys, applied to a
\* block of type cls: the block's rank
type_key(order, fallback_idx, cls) ==
    LET ord == IF order = None THEN DefaultOrder ELSE order[1]
        r == mro_index(cls, ord, fallback_idx)
    IN  IF r.exc = "" THEN Ok([val |-> r.val]) ELSE r

----------------------------------------------------------------------------
(* Key generators.  A key description is <<"attr">> (a caller's generator   *)
(* that reads the block's attribute), <<"type">> (type_key() with its       *)
(* defaults), or <<"reverse">> \o d (reverse_key of the description d).     *)

\* the caller's key generator
attr_key(h, id) == Ok([val |-> h[id].attr])

\* the generator reverse_key(sub) returns, and what _keygen passes through
RECURSIVE key_of(_, _, _)
key_of(desc, h, id) ==
    IF Head(desc) = "reverse"
    THEN LET r == key_of(Tail(desc), h, id)
         IN  IF r.exc = "" THEN Ok(ReversedKey(r.val)) ELSE r
    ELSE IF Head(desc) = "type" THEN type_key(None, None, h[id].type)
    ELSE attr_key(h, id)

----------------------------------------------------------------------------
(* list.sort(key=..., reverse=...): the keys are computed first, the sort   *)
(* is a stable insertion by "<"; reverse=True reverses the list before and  *)
(* after, which keeps equal elements in their original order.               *)

\* an insertion in front of the elements that are equal
RECURSIVE insort_BeforeEqual(_, _)
insort_BeforeEqual(sorted, p) ==
    IF sorted = <<>> THEN <<p>>
    ELSE IF ~key_gt(p.k, Head(sorted).k) THEN <<p>> \o sorted
    ELSE <<Head(sorted)>> \o insort_BeforeEqual(Tail(sorted), p)

\* insertion of p behind every element that is not greater
RECURSIVE insort(_, _)
insort(sorted, p) ==
    IF sorted = <<>> THEN <<p>>
    ELSE IF key_lt(p.k, Head(sorted).k) THEN <<p>> \o sorted
    ELSE <<Head(sorted)>> \o insort(Tail(sorted), p)

RECURSIVE stable_sort(_)
stable_sort(pairs) ==
    IF pairs = <<>> THEN <<>>
    ELSE insort(stable_sort(SubSeq(pairs, 1, Len(pairs) - 1)), pairs[Len(pairs)])

\* a sort that reverses only the result
list_sort_ReverseAfter(items, keys, reverse) ==
    LET pairs == [i \in 1..Len(items) |-> [k |-> keys[i], x |-> items[i]]]
        srt == stable_sort(pairs)
        post == IF reverse THEN Reverse(srt) ELSE srt
    IN  [i \in 1..Len(post) |-> post[i].x]

\* items.sort(key=..., reverse=reverse), keys[i] being the key of items[i]
list_sort(items, keys, reverse) ==
    LET pairs == [i \in 1..Len(items) |-> [k |-> keys[i], x |-> items[i]]]
        pre == IF reverse THEN Reverse(pairs) ELSE pairs
        srt == stable_sort(pre)
        post == IF reverse THEN Reverse(srt) ELSE srt
    IN  [i \in 1..Len(post) |-> post[i].x]

----------------------------------------------------------------------------
(* Junk grouping.  A _BlockJunk is its blocks list. *)

\* a main block that is the junk's first block
main_block_First(junk) ==
    IF Len(junk) = 0 THEN Raise("RuntimeError") ELSE Ok(junk[1])

\* _BlockJunk.main_block: blocks[-1]; the IndexError of an empty list becomes
\* a RuntimeError
main_block(junk) ==
    IF Len(junk) = 0 THEN Raise("RuntimeError") ELSE Ok(junk[Len(junk)])

\* the inner generator of _gather_junk: the (0-based) indices of the
\* non-comment blocks, ascending
non_comment_indices(h, blocks) ==
    SelectSeq([i \in 1..Len(blocks) |-> i - 1], LAMBDA idx : ~IsComment(h, blocks[idx + 1]))

\* the list comprehension of _gather_junk: one slice per non-comment block,
\* from the end of the preceding slice
RECURSIVE gather_slices(_, _, _, _)
gather_slices(blocks, idxs, slc_first, junks) ==
    IF idxs = <<>> THEN [junks |-> junks, slc_first |-> slc_first]
    ELSE LET slc_last == Head(idxs)
         IN  gather_slices(blocks, Tail(idxs), slc_last + 1,
                           Append(junks, Slice(blocks, slc_first, slc_last + 1)))

\* a grouping that forgets the trailing comments
gather_junk_NoTrailing(h, blocks) ==
    gather_slices(blocks, non_comment_indices(h, blocks), 0, <<>>).junks

\* a grouping that cuts each junk before its non-comment block
gather_junk_CutBefore(h, blocks) ==
    LET idxs == non_comment_indices(h, blocks)
        cuts == [i \in 1..Len(idxs) |-> Slice(blocks, idxs[i], IF i = Len(idxs) THEN Len(blocks) ELSE idxs[i + 1])]
    IN  IF idxs = <<>> THEN (IF blocks = <<>> THEN <<>> ELSE <<blocks>>)
        ELSE IF idxs[1] = 0 THEN cuts ELSE <<Slice(blocks, 0, idxs[1])>> \o cuts

\* SortBlocksMiddleware._gather_junk(blocks)
gather_junk(h, blocks) ==
    LET g == gather_slices(blocks, non_comment_indices(h, blocks), 0, <<>>)
    IN  IF g.slc_first < Len(blocks)
        THEN Append(g.junks, Slice(blocks, g.slc_first, Len(blocks)))
        ELSE g.junks

\* SortBlocksMiddleware._junk_key(key)(junk): key(junk.main_block)
junk_key(desc, h, junk) ==
    LET mb == main_block(junk)
    IN  IF mb.exc = "" THEN key_of(desc, h, mb.val) ELSE mb

\* (blk for junk in junks for blk in junk.blocks)
RECURSIVE flatten(_)
flatten(junks) == IF junks = <<>> THEN <<>> ELSE Head(junks) \o flatten(Tail(junks))

----------------------------------------------------------------------------
(* SortBlocksMiddleware. *)

\* what a sort raises when a key raises: the first key's exception
first_raise(rs) ==
    rs[CHOOSE i \in DOMAIN rs : rs[i].exc # "" /\ \A j \in 1..(i - 1) : rs[j].exc = ""]

\* the unwrapped keys
vals(rs) == [i \in DOMAIN rs |-> rs[i].val]

\* the sorting step of transform on the working list
sort_blocks(h, blocks, m) ==
    IF m.junk
    THEN LET junks == gather_junk(h, blocks)
             ks == [i \in 1..Len(junks) |-> junk_key(m.key, h, junks[i])]
         IN  IF \E i \in DOMAIN ks : ks[i].exc # "" THEN first_raise(ks)
             ELSE Ok(flatten(list_sort(junks, vals(ks), m.reverse)))
    ELSE LET ks == [i \in 1..Len(blocks) |-> key_of(m.key, h, blocks[i])]
         IN  IF \E i \in DOMAIN ks : ks[i].exc # "" THEN first_raise(ks)
             ELSE Ok(list_sort(blocks, vals(ks), m.reverse))

\* a working list that is always the library's own
working_blocks_NoCopy(h, src, inplace) == [heap |-> h, blocks |-> src, live |-> TRUE]

\* blocks = library.blocks, deep-copied unless inplace: the heap with the
\* copies, the working list, and whether it is the library's live list
working_blocks(h, src, inplace) ==
    IF inplace
    THEN [heap |-> h, blocks |-> src, live |-> TRUE]
    ELSE [heap |-> h \o [i \in 1..Len(src) |-> h[src[i]]],
          blocks |-> [i \in 1..Len(src) |-> Len(h) + i],
          live |-> FALSE]

\* Library(blocks): the libraries with a new one that holds the blocks
NewLibrary(ls, blocks) == Append(ls, blocks)

\* SortBlocksMiddleware.transform(library): the heap, the libraries, the
\* returned library and the exception afterwards
transform(h, ls, m, library) ==
    LET wb == working_blocks(h, ls[library], m.inplace)
        s == sort_blocks(wb.heap, wb.blocks, m)
    IN  IF s.exc # ""
        THEN [heap |-> wb.heap, libs |-> ls, ret |-> 0, raised |-> s.exc]
        ELSE LET ls1 == IF wb.live THEN [ls EXCEPT ![library] = s.val] ELSE ls
             IN  IF m.inplace
                 THEN [heap |-> wb.heap, libs |-> ls1, ret |-> library, raised |-> ""]
                 ELSE [heap |-> wb.heap, libs |-> NewLibrary(ls1, s.val),
                       ret |-> Len(ls1) + 1, raised |-> ""]

----------------------------------------------------------------------------
(* The sorter's state machine: a library is built, a middleware is         *)
(* constructed, transform is called on the library and then on what it     *)
(* returned.                                                               *)

\* the blocks libraries are built from: every block type, with the value the
\* caller's key generator reads from the block
BlockValues ==
    {[type |-> "Entry", attr |-> 1], [type |-> "Entry", attr |-> 2],
     [type |-> "String", attr |-> 1], [type |-> "Preamble", attr |-> 2],
     [type |-> "ImplicitComment", attr |-> 1], [type |-> "ExplicitComment", attr |-> 2]}

\* the keys middlewares are constructed with
KeyDescs == {<<"attr">>, <<"type">>, <<"reverse", "attr">>}

NoCall == [fn |-> "", args |-> <<>>]

\* the middleware before __init__ has run
NoMiddleware == [key |-> <<"attr">>, reverse |-> FALSE, junk |-> TRUE, inplace |-> TRUE]

\* Library(blocks) of at most n blocks
InitLibrary(n) ==
    /\ heap \in SeqsUpTo(BlockValues, n)
    /\ libs = <<[i \in 1..Len(heap) |-> i]>>
    /\ arg = 1
    /\ ret = 0
    /\ entry = <<>>
    /\ calls = 0
    /\ raised = ""

Init ==
    /\ InitLibrary(MaxLen)
    /\ mw = NoMiddleware
    /\ pc = "start"
    /\ call = NoCall
    /\ result = <<>>

\* SortBlocksMiddleware.__init__
Construct(key, reverse, preserve_comments_on_top, allow_inplace_modification) ==
    /\ pc = "start"
    /\ mw' = [key |-> key, reverse |-> reverse, junk |-> preserve_comments_on_top,
              inplace |-> allow_inplace_modification]
    /\ pc' = "constructed"
    /\ UNCHANGED <<heap, libs, arg, ret, entry, calls, raised, call, result>>

CallTransform(library) ==
    \E t \in {transform(heap, libs, mw, library)} :
        /\ heap' = t.heap
        /\ libs' = t.libs
        /\ ret' = t.ret
        /\ raised' = t.raised
        /\ arg' = library
        /\ entry' = libs[library]
        /\ calls' = calls + 1
        /\ pc' = "returned"
        /\ UNCHANGED <<mw, call, result>>

\* middleware.transform(library)
Transform ==
    /\ pc = "constructed"
    /\ CallTransform(1)

\* middleware.transform(the library the last call returned)
TransformAgain ==
    /\ pc = "returned"
    /\ raised = ""
    /\ calls = 1
    /\ CallTransform(ret)

Next ==
    \/ \E key \in KeyDescs, reverse \in BOOLEAN, junk \in BOOLEAN, inplace \in BOOLEAN :
          Construct(key, reverse, junk, inplace)
    \/ Transform
    \/ TransformAgain

Spec == Init /\ [][Next]_vars

----------------------------------------------------------------------------
(* _gather_junk applied to a block list. *)

InitJunk ==
    /\ InitLibrary(MaxLen)
    /\ mw = NoMiddleware
    /\ pc = "start"
    /\ call = NoCall
    /\ result = <<>>

\* SortBlocksMiddleware._gather_junk(library.blocks)
GatherJunk ==
    /\ call.fn = ""
    /\ call' = [fn |-> "gather_junk", args |-> <<libs[1]>>]
    /\ result' = gather_junk(heap, libs[1])
    /\ UNCHANGED <<heap, libs, mw, pc, arg, ret, entry, calls, raised>>

SpecJunk == InitJunk /\ [][GatherJunk]_vars

----------------------------------------------------------------------------
(* type_key applied to block types. *)

\* type orders: tuples of distinct types
TypeOrders ==
    {o \in SeqsUpTo(AllTypes, MaxOrderLen) : \A i, j \in DOMAIN o : i # j => o[i] # o[j]}

OrderArgs == {None} \cup {Some(o) : o \in TypeOrders}

FallbackArgs == {None} \cup {Some(n) : n \in 0..MaxFallback}

\* key = type_key(order, fallback_idx=fallback_idx)
InitTypeKey ==
    /\ heap = <<>>
    /\ libs = <<<<>>>>
    /\ arg = 1
    /\ ret = 0
    /\ entry = <<>>
    /\ calls = 0
    /\ raised = ""
    /\ mw = NoMiddleware
    /\ pc = "start"
    /\ \E order \in OrderArgs, fallback_idx \in FallbackArgs :
          call = [fn |-> "type_key", args |-> <<order, fallback_idx>>]
    /\ result = <<>>

\* key(blk) for a block of type cls
TypeKeyOf(cls) ==
    /\ call.fn = "type_key"
    /\ call' = [fn |-> "key", args |-> call.args \o <<cls>>]
    /\ result' = type_key(call.args[1], call.args[2], cls)
    /\ UNCHANGED <<heap, libs, mw, pc, arg, ret, entry, calls, raised>>

NextTypeKey == \E cls \in BlockTypes : TypeKeyOf(cls)

SpecTypeKey == InitTypeKey /\ [][NextTypeKey]_vars

----------------------------------------------------------------------------
(* reverse_key: keys compared, and block lists sorted, under a key          *)
(* generator f wrapped in reverse_key depth times.                          *)

\* deepest nesting of reverse_key
MaxDepth == 2

\* the key generators f
BaseKeys == {<<"attr">>, <<"type">>}

\* reverse_key(... reverse_key(f))
RECURSIVE reverse_key(_, _)
reverse_key(f, depth) == IF depth = 0 THEN f ELSE <<"reverse">> \o reverse_key(f, depth - 1)

InitReverseKey ==
    /\ InitLibrary(MaxSortLen)
    /\ mw = NoMiddleware
    /\ pc = "start"
    /\ call = NoCall
    /\ result = <<>>

\* reverse_key^depth(f)(a) < reverse_key^depth(f)(b), and ==
CompareKeys(f, depth, a, b) ==
    /\ call.fn = ""
    /\ call' = [fn |-> "compare", args |-> <<f, depth, a, b>>]
    /\ LET ka == key_of(reverse_key(f, depth), heap, a).val
           kb == key_of(reverse_key(f, depth), heap, b).val
       IN  result' = [lt |-> key_lt(ka, kb), eq |-> key_eq(ka, kb)]
    /\ UNCHANGED <<heap, libs, mw, pc, arg, ret, entry, calls, raised>>

\* sorted(library.blocks, key=reverse_key^depth(f))
sorted_by(desc, h, blocks) ==
    list_sort(blocks, [i \in 1..Len(blocks) |-> key_of(desc, h, blocks[i]).val], FALSE)

SortedBy(f, depth) ==
    /\ call.fn = ""
    /\ call' = [fn |-> "sorted", args |-> <<f, depth>>]
    /\ result' = sorted_by(reverse_key(f, depth), heap, libs[1])
    /\ UNCHANGED <<heap, libs, mw, pc, arg, ret, entry, calls, raised>>

NextReverseKey ==
    \/ \E f \in BaseKeys, depth \in 0..MaxDepth, a \in DOMAIN heap, b \in DOMAIN heap :
          CompareKeys(f, depth, a, b)
    \/ \E f \in BaseKeys, depth \in 0..MaxDepth : SortedBy(f, depth)

SpecReverseKey == InitReverseKey /\ [][NextReverseKey]_vars

----------------------------------------------------------------------------
(* What the claims speak of, read off the state after a transform call.    *)

\* the last transform call returned a library
Returned == pc = "returned" /\ raised = ""

\* the block list of the returned library
Out == libs[ret]

\* the block the i-th block of the input list is in the output: itself when
\* sorted in place, else its copy
Image(i) == IF mw.inplace THEN entry[i] ELSE Len(heap) - Len(entry) + i

\* where the i-th input block stands in the output (0: nowhere)
PosOut(i) ==
    LET S == {p \in DOMAIN Out : Out[p] = Image(i)}
    IN  IF S = {} THEN 0 ELSE CHOOSE p \in S : TRUE

CommentTypes == {"ImplicitComment", "ExplicitComment"}

CommentAt(seq, i) == heap[seq[i]].type \in CommentTypes

TypesOf(seq) == [i \in DOMAIN seq |-> heap[seq[i]].type]

ValuesOf(seq) == [i \in DOMAIN seq |-> heap[seq[i]]]

EndsInComment(seq) == seq # <<>> /\ CommentAt(seq, Len(seq))

\* the rank the documented default order gives a block type
DocumentedRank(t) ==
    CASE t = "String" -> 0
      [] t = "Preamble" -> 1
      [] t = "Entry" -> 2
      [] t = "ImplicitComment" -> 3
      [] t = "ExplicitComment" -> 4

\* the integer a base key generator orders a block by
BaseValue(f, blk) == IF f = <<"attr">> THEN blk.attr ELSE DocumentedRank(blk.type)

\* the integer a key description orders a block by, ascending: each
\* reverse_key around the base generator flips the sign
OrderValue(desc, blk) ==
    LET v == BaseValue(<<desc[Len(desc)]>>, blk)
    IN  IF (Len(desc) - 1) % 2 = 1 THEN 0 - v ELSE v

\* the integer the middleware's sort orders the i-th input block by,
\* ascending: reverse=True flips the sign
SortValue(i) ==
    LET v == OrderValue(mw.key, heap[entry[i]])
    IN  IF mw.reverse THEN 0 - v ELSE v

\* the input positions of the blocks the sort moves as units by their own
\* key: every block, or with preserve_comments_on_top the last block of
\* every junk
JunkEnds == {i \in DOMAIN entry : ~CommentAt(entry, i) \/ i = Len(entry)}
Units == IF mw.junk THEN JunkEnds ELSE DOMAIN entry

\* the output holds every input block (or its copy) exactly once
IsPermutation ==
    /\ Len(Out) = Len(entry)
    /\ \A i \in DOMAIN entry : Cardinality({p \in DOMAIN Out : Out[p] = Image(i)}) = 1

\* units with a smaller key stand before units with a larger one
OrderedOut ==
    \A i, j \in Units : SortValue(i) < SortValue(j) => PosOut(i) < PosOut(j)

\* units with equal keys keep their input order
StableOut ==
    \A i, j \in Units : (i < j /\ SortValue(i) = SortValue(j)) => PosOut(i) < PosOut(j)

\* the input position where the comment run in front of position b starts
RunStart(b) ==
    CHOOSE c \in 1..b :
        /\ \A i \in c..(b - 1) : CommentAt(entry, i)
        /\ (c = 1 \/ ~CommentAt(entry, c - 1))

\* the comments in front of input block b stand right in front of it in the
\* output, in their input order
RunAttached(b) == \A i \in RunStart(b)..(b - 1) : PosOut(i) + 1 = PosOut(i + 1)

\* in the output no further comment stands in front of that run
RunExact(b) ==
    LET p == PosOut(RunStart(b))
    IN  p = 1 \/ (p > 1 /\ ~CommentAt(Out, p - 1))

NonComments == {b \in DOMAIN entry : ~CommentAt(entry, b)}

\* the input [Comment c1, Entry a, Comment c2, Entry b] with a < b
AdjacencyExampleIn ==
    /\ Len(entry) = 4
    /\ CommentAt(entry, 1) /\ CommentAt(entry, 3)
    /\ heap[entry[2]] = [type |-> "Entry", attr |-> 1]
    /\ heap[entry[4]] = [type |-> "Entry", attr |-> 2]

\* sorted descending by the entries' key
SortsDescendingByAttr ==
    \/ mw.key = <<"attr">> /\ mw.reverse
    \/ mw.key = <<"reverse", "attr">> /\ ~mw.reverse

\* the output [Comment c2, Entry b, Comment c1, Entry a]
AdjacencyExampleOut == Out = <<Image(3), Image(4), Image(1), Image(2)>>

----------------------------------------------------------------------------
(* Claims about transform, checked under Spec. *)

\* C1: when allow_inplace_modification is false, transform leaves the input
\* library's block list as it was (same blocks, same order) and returns a
\* library that did not exist before the call and holds the reordered
\* sequence; when it is true, transform returns the input library itself,
\* whose block list is the reordered sequence.
C1_InPlaceVsCopy ==
    [][(calls' = calls + 1 /\ raised' = "") =>
          IF mw'.inplace
          THEN /\ ret' = arg'
               /\ Len(libs') = Len(libs)
               /\ IsPermutation' /\ OrderedOut'
          ELSE /\ libs'[arg'] = libs[arg']
               /\ ret' \notin DOMAIN libs
               /\ ret' \in DOMAIN libs'
               /\ IsPermutation' /\ OrderedOut']_vars

\* a copying sort that returned a reordered list in a second library
C1_Witness ==
    /\ Returned /\ ~mw.inplace /\ ret # arg
    /\ libs[arg] = entry
    /\ ValuesOf(Out) # ValuesOf(entry)

\* C2 as stated: with preserve_comments_on_top, every non-comment block is in
\* the output immediately preceded by exactly the comments that preceded it
\* in the input, in the same order; and the example [c1, a, c2, b] sorted
\* descending yields [c2, b, c1, a].
C2_Original ==
    (Returned /\ mw.junk) =>
        /\ \A b \in NonComments : RunAttached(b) /\ RunExact(b)
        /\ (AdjacencyExampleIn /\ SortsDescendingByAttr) => AdjacencyExampleOut

\* C2 amended: with preserve_comments_on_top, every non-comment block is in
\* the output immediately preceded by the comments that preceded it in the
\* input, in the same order; these are exactly the comments in front of it
\* when the input does not end in a comment block (trailing comments form a
\* junk of their own, which the sort may place in front of another junk);
\* and the example [c1, a, c2, b] sorted descending yields [c2, b, c1, a].
C2_CommentAdjacency ==
    (Returned /\ mw.junk) =>
        /\ \A b \in NonComments : RunAttached(b) /\ (~EndsInComment(entry) => RunExact(b))
        /\ (AdjacencyExampleIn /\ SortsDescendingByAttr) => AdjacencyExampleOut

\* the example: [c1, a, c2, b] sorted descending became [c2, b, c1, a]
C2_Witness ==
    /\ Returned /\ mw.junk /\ calls = 1
    /\ AdjacencyExampleIn /\ SortsDescendingByAttr /\ AdjacencyExampleOut

\* C3: the sort is stable, for reverse = false and reverse = true: blocks
\* (junks, with preserve_comments_on_top, compared by their main blocks) with
\* equal keys stand in the output in their input order.
C3_Stable == Returned => StableOut

\* a descending sort that moved blocks and kept two equal-key units in order
C3_Witness ==
    /\ Returned /\ mw.reverse /\ calls = 1
    /\ \E i, j, k \in Units :
          /\ i < j /\ j < k
          /\ SortValue(i) = SortValue(j)
          /\ SortValue(k) < SortValue(i)
          /\ PosOut(k) < PosOut(i) /\ PosOut(i) < PosOut(j)

\* C5 as stated: a comment-preserving sort of a sequence that ends in comment
\* blocks (so that its last junk holds only comments) aborts with the
\* explicit error of main_block.
C5_Original ==
    (pc = "returned" /\ mw.junk /\ EndsInComment(entry)) => raised = "RuntimeError"

\* C5 amended: the main block of a junk that holds only comment blocks is its
\* last comment block, returned without error (_gather_junk returns no empty
\* junk, the only one main_block raises for); a comment-preserving sort of a
\* sequence ending in comments completes and places that junk by the key of
\* its last comment.
C5_TrailingJunkKey ==
    (pc = "returned" /\ mw.junk /\ EndsInComment(entry)) =>
        LET junks == gather_junk(heap, entry)
        IN  /\ raised = ""
            /\ \A n \in DOMAIN junks : junks[n] # <<>>
            /\ main_block(junks[Len(junks)]) = Ok(entry[Len(entry)])
            /\ IsPermutation
            /\ OrderedOut

\* trailing comments that the sort moved in front of another block
C5_Witness ==
    /\ Returned /\ mw.junk /\ EndsInComment(entry)
    /\ Len(entry) >= 3
    /\ CommentAt(entry, Len(entry) - 1)
    /\ PosOut(Len(entry)) < Len(entry)
    /\ PosOut(Len(entry)) > 0

\* non-decreasing documented rank along a block list
RanksAscend(seq) ==
    \A p, q \in DOMAIN seq :
        p < q => DocumentedRank(heap[seq[p]].type) <= DocumentedRank(heap[seq[q]].type)

TypeOrderExampleIn == TypesOf(entry) = <<"Entry", "ImplicitComment", "String">>

\* C7 as stated: sorting by type_key() with the default order and the
\* sorter's other options at their defaults (reverse false,
\* preserve_comments_on_top true, allow_inplace_modification true) yields
\* blocks in non-decreasing type rank; (Entry, ImplicitComment, String)
\* yields (String, Entry, ImplicitComment).
C7_Original ==
    (Returned /\ mw.key = <<"type">> /\ ~mw.reverse /\ mw.junk /\ mw.inplace) =>
        /\ RanksAscend(Out)
        /\ TypeOrderExampleIn => TypesOf(Out) = <<"String", "Entry", "ImplicitComment">>

\* C7 amended: sorting a library of String, Preamble, Entry, ImplicitComment
\* and ExplicitComment blocks by type_key() with the default order and
\* reverse false yields blocks in non-decreasing type rank when
\* preserve_comments_on_top is false, (Entry, ImplicitComment, String)
\* yielding (String, Entry, ImplicitComment); with preserve_comments_on_top
\* true (the default) it is the junks' main blocks that are in non-decreasing
\* rank, each with its comments in front, and that input yields
\* (ImplicitComment, String, Entry).
C7_TypeOrder ==
    (Returned /\ mw.key = <<"type">> /\ ~mw.reverse) =>
        IF mw.junk
        THEN /\ IsPermutation
             /\ \A i, j \in JunkEnds :
                   PosOut(i) < PosOut(j) =>
                       DocumentedRank(heap[entry[i]].type) <= DocumentedRank(heap[entry[j]].type)
             /\ TypeOrderExampleIn => TypesOf(Out) = <<"ImplicitComment", "String", "Entry">>
        ELSE /\ IsPermutation
             /\ RanksAscend(Out)
             /\ TypeOrderExampleIn => TypesOf(Out) = <<"String", "Entry", "ImplicitComment">>

\* (Entry, ImplicitComment, String) sorted without junks
C7_Witness ==
    /\ Returned /\ mw.key = <<"type">> /\ ~mw.reverse /\ ~mw.junk /\ calls = 1
    /\ TypeOrderExampleIn
    /\ TypesOf(Out) = <<"String", "Entry", "ImplicitComment">>

\* C8: transform applied to the output of transform, with the same
\* configuration, yields a sequence identical to that output (the same
\* blocks in place, equal copies otherwise), also for sequences that end in
\* comment blocks.
C8_Idempotent ==
    (Returned /\ calls = 2) =>
        /\ ValuesOf(Out) = ValuesOf(entry)
        /\ Out = [i \in DOMAIN entry |-> Image(i)]

\* a second call on the reordered copy of an input that ended in comments
C8_Witness ==
    /\ Returned /\ calls = 2 /\ ~mw.inplace /\ mw.junk /\ mw.reverse
    /\ EndsInComment(libs[1])
    /\ ValuesOf(entry) # ValuesOf(libs[1])
    /\ \E i, j \in DOMAIN entry : i # j /\ heap[entry[i]] = heap[entry[j]]

\* C10: the returned block list is a permutation of the input list: of the
\* input's own blocks in place, of their copies otherwise, with the same
\* length and no block dropped or duplicated.
C10_Permutation ==
    Returned =>
        /\ IsPermutation
        /\ \A i \in DOMAIN entry : heap[Image(i)] = heap[entry[i]]
        /\ mw.inplace => \A p \in DOMAIN Out : Out[p] \in {entry[i] : i \in DOMAIN entry}

\* an in-place comment-preserving sort that rebuilt the live list in a new order
C10_Witness ==
    /\ Returned /\ mw.inplace /\ mw.junk /\ calls = 1
    /\ Len(entry) >= 3
    /\ EndsInComment(entry)
    /\ Out # entry

----------------------------------------------------------------------------
(* Claim about _gather_junk, checked under SpecJunk. *)

\* the junks' block lists, one after the other
RECURSIVE Concatenation(_)
Concatenation(ss) ==
    IF ss = <<>> THEN <<>>
    ELSE Concatenation(SubSeq(ss, 1, Len(ss) - 1)) \o ss[Len(ss)]

\* C4: the blocks of the junks _gather_junk(seq) returns, concatenated in
\* junk order, are exactly seq; no returned junk is empty, and the empty
\* sequence gives no junk.
C4_Partition ==
    call.fn = "gather_junk" =>
        /\ Concatenation(result) = call.args[1]
        /\ \A n \in DOMAIN result : result[n] # <<>>
        /\ call.args[1] = <<>> => result = <<>>

\* a list ending in comments, split into a junk with a comment on top and
\* the trailing junk
C4_Witness ==
    /\ call.fn = "gather_junk"
    /\ Len(result) >= 2
    /\ Len(result[1]) >= 2
    /\ EndsInComment(call.args[1])
    /\ \A i \in DOMAIN result[Len(result)] : CommentAt(result[Len(result)], i)

----------------------------------------------------------------------------
(* Claim about type_key, checked under SpecTypeKey. *)

\* the position (0-based) of type t in the order ord
PositionIn(ord, t) == (CHOOSE i \in DOMAIN ord : ord[i] = t) - 1

\* the types of the ancestor chain of cls that stand in ord, as positions
\* of the chain
ChainHits(ord, cls) ==
    {n \in DOMAIN Mro(cls) : \E i \in DOMAIN ord : ord[i] = Mro(cls)[n]}

\* the rank the documentation gives cls: the position of the first type of
\* its ancestor chain found in the order, else the fallback rank (default:
\* the length of the order)
DocumentedIndex(ord, fallback_idx, cls) ==
    IF ChainHits(ord, cls) # {}
    THEN PositionIn(ord, Mro(cls)[CHOOSE n \in ChainHits(ord, cls) :
                                      \A m \in ChainHits(ord, cls) : n <= m])
    ELSE IF fallback_idx = None THEN Len(ord) ELSE fallback_idx[1]

\* C6: type_key ranks a block type by its own position in the order, else by
\* the position of the first type of its ancestor chain that is in the
\* order, else by the fallback rank (default: the length of the order), and
\* raises no error in the last two cases.
C6_RankByAncestor ==
    call.fn = "key" =>
        LET ord == IF call.args[1] = None THEN DefaultOrder ELSE call.args[1][1]
        IN  result = Ok([val |-> DocumentedIndex(ord, call.args[2], call.args[3])])

----------------------------------------------------------------------------
(* Claim about reverse_key, checked under SpecReverseKey. *)

\* the integers f gives the blocks of a list
BaseValuesOf(f, seq) == [i \in DOMAIN seq |-> BaseValue(f, heap[seq[i]])]

\* sorted(library.blocks, key=f)
SortedByBase == sorted_by(call.args[1], heap, libs[1])

\* f gives no two blocks of the library the same key
DistinctKeys ==
    \A i, j \in DOMAIN libs[1] :
        i # j => BaseValue(call.args[1], heap[libs[1][i]]) # BaseValue(call.args[1], heap[libs[1][j]])

\* reverse_key(f)(a) < reverse_key(f)(b) exactly when f(b) < f(a), and the
\* reversed keys are equal exactly when f(a) = f(b)
ReversedComparison ==
    (call.fn = "compare" /\ call.args[2] = 1) =>
        LET fa == BaseValue(call.args[1], heap[call.args[3]])
            fb == BaseValue(call.args[1], heap[call.args[4]])
        IN  /\ result.lt = (fb < fa)
            /\ result.eq = (fa = fb)

\* sorting by reverse_key(reverse_key(f)) gives the order sorting by f gives
DoubleReversal ==
    (call.fn = "sorted" /\ call.args[2] = 2) => result = SortedByBase

\* C9 as stated: the comparison of reversed keys, the double reversal, and:
\* sorting by reverse_key(f) yields the inverse of the sequence that sorting
\* the same input by f yields.
C9_Original ==
    /\ ReversedComparison
    /\ DoubleReversal
    /\ (call.fn = "sorted" /\ call.args[2] = 1) => result = Reverse(SortedByBase)

\* C9 amended: the comparison of reversed keys and the double reversal as
\* stated; sorting by reverse_key(f) yields the blocks in the inverse key
\* order of sorting by f (the keys f gives the blocks are non-increasing, and
\* read backwards they are those of the f-sorted list), which is the inverse
\* sequence when f gives no two blocks the same key: blocks with equal keys
\* keep their input order under both sorts.
C9_ReverseKey ==
    /\ ReversedComparison
    /\ DoubleReversal
    /\ (call.fn = "sorted" /\ call.args[2] = 1) =>
          /\ BaseValuesOf(call.args[1], result) = Reverse(BaseValuesOf(call.args[1], SortedByBase))
          /\ \A i, j \in DOMAIN libs[1] :
                (i < j /\ BaseValue(call.args[1], heap[libs[1][i]]) = BaseValue(call.args[1], heap[libs[1][j]]))
                    => \E p, q \in DOMAIN result : p < q /\ result[p] = libs[1][i] /\ result[q] = libs[1][j]
          /\ DistinctKeys => result = Reverse(SortedByBase)

\* a list with two equal keys and a smaller one, sorted by reverse_key(f)
C9_Witness ==
    /\ call.fn = "sorted" /\ call.args[2] = 1
    /\ Len(result) = 3
    /\ result # libs[1]
    /\ result # Reverse(SortedByBase)
    /\ \E i, j \in DOMAIN libs[1] :
          i # j /\ BaseValue(call.args[1], heap[libs[1][i]]) = BaseValue(call.args[1], heap[libs[1][j]])

====
